---- MODULE Spec2Model ----
(***************************************************************************)
(* The request proxy of the todo front end:                                *)
(*   src/frontend/app/api/proxy/[...path]/route.ts                         *)
(* One invocation of `handler` is modelled step by step: the body read,    *)
(* the path rewrite, the authorization header, the origin resolution, the  *)
(* outbound fetch and the translation of the backend's answer.             *)
(* Paths, header values and body texts are strings, handled with the       *)
(* string operations the code uses (startsWith, includes, slice, replace). *)
(***************************************************************************)
EXTENDS Integers, Sequences, FiniteSets, TLC

VARIABLES
    env,              \* process.env: NODE_ENV, API_BASE_URL, NEXT_PUBLIC_API_BASE_URL
    pc,               \* position of the invocation inside handler
    req,              \* the inbound request: method, path segments, body text
    requestBody,      \* handler's local requestBody
    transformedPath,  \* handler's local transformedPath
    headers,          \* handler's local headers (header name -> value)
    session,          \* what getSessionServer() answered, if it was called
    sessionLookups,   \* number of getSessionServer() calls made
    outbound,         \* the fetch calls made, in order
    res,              \* the backend's answer to the fetch
    response,         \* the response handler returned
    \* TasksClient (tasksClient.tsx)
    initialStatus,    \* the initialStatus prop (the status filter of the URL)
    tasks,            \* useState: the task list
    editing,          \* useState: the task being edited, or null
    toasts,           \* the toast messages shown so far
    ops,              \* the calls of the async functions that are in flight
    serverTasks,      \* the task list the backend holds
    \* Chatbot (Chatbot.tsx)
    userId,           \* the userId prop
    messages,         \* useState: the messages shown
    inputValue,       \* useState: the text of the input
    isLoading,        \* useState: a request is being waited for
    localStorage,     \* window.localStorage: key -> stored messages
    pending           \* the sendChatMessage calls not yet answered

proxyVars == <<env, pc, req, requestBody, transformedPath, headers, session,
               sessionLookups, outbound, res, response>>

tasksVars == <<initialStatus, tasks, editing, toasts, ops, serverTasks>>

chatVars == <<userId, messages, inputValue, isLoading, localStorage, pending>>

clientVars == <<tasksVars, chatVars>>

vars == <<proxyVars, tasksVars, chatVars>>

\* no TasksClient is mounted
NoTasksClient ==
    /\ initialStatus = "all"
    /\ tasks = <<>>
    /\ editing = [type |-> "null"]
    /\ toasts = {}
    /\ ops = <<>>
    /\ serverTasks = <<>>

\* no Chatbot is mounted
NoChatbot ==
    /\ userId = 0
    /\ messages = <<>>
    /\ inputValue = ""
    /\ isLoading = FALSE
    /\ localStorage = <<>>
    /\ pending = <<>>

----------------------------------------------------------------------------
(* String operations of JavaScript, on TLA+ strings.                       *)

\* String.prototype.startsWith
StartsWith(s, p) == Len(s) >= Len(p) /\ SubSeq(s, 1, Len(p)) = p

\* a match anchored at the end of the string (the `$` of the regexes)
EndsWith(s, p) == Len(s) >= Len(p) /\ SubSeq(s, Len(s) - Len(p) + 1, Len(s)) = p

\* whether sub occurs in s at (1-based) position i
OccursAt(s, sub, i) == i >= 1 /\ i + Len(sub) - 1 <= Len(s)
                       /\ SubSeq(s, i, i + Len(sub) - 1) = sub

\* String.prototype.includes
Includes(s, sub) == \E i \in 1..(Len(s) + 1) : OccursAt(s, sub, i)

\* String.prototype.slice(n), n >= 0: the string without its first n characters
Slice(s, n) == IF n >= Len(s) THEN "" ELSE SubSeq(s, n + 1, Len(s))

\* String.prototype.replace(pattern, replacement) with a string pattern:
\* only the first occurrence is replaced
ReplaceFirst(s, pat, rep) ==
    IF ~Includes(s, pat) THEN s
    ELSE LET i == CHOOSE k \in 1..(Len(s) + 1) :
                     /\ OccursAt(s, pat, k)
                     /\ \A j \in 1..(k - 1) : ~OccursAt(s, pat, j)
         IN  SubSeq(s, 1, i - 1) \o rep \o Slice(s, i + Len(pat) - 1)

\* Array.prototype.join("/")
RECURSIVE Join(_)
Join(segs) == IF Len(segs) = 0 THEN ""
              ELSE IF Len(segs) = 1 THEN segs[1]
              ELSE segs[1] \o "/" \o Join(Tail(segs))

Digits == {"0", "1", "2", "3", "4", "5", "6", "7", "8", "9"}

\* the regex fragment \d+ matched against the whole of s
AllDigits(s) == Len(s) > 0 /\ \A i \in 1..Len(s) : SubSeq(s, i, i) \in Digits

\* the regex /^\/\d+<suffix>$/, suffix being "/chat" or "/new_conversation"
MatchesIdThen(s, suffix) ==
    /\ StartsWith(s, "/")
    /\ EndsWith(s, suffix)
    /\ Len(s) > 1 + Len(suffix)
    /\ AllDigits(SubSeq(s, 2, Len(s) - Len(suffix)))

\* the capture group $1 of /^\/(\d+)<suffix>$/
IdOf(s, suffix) == SubSeq(s, 2, Len(s) - Len(suffix))

\* the regex /^\/conversations\/\d+\/\d+$/
MatchesConversation(s) ==
    /\ StartsWith(s, "/conversations/")
    /\ LET rest == Slice(s, Len("/conversations/"))
       IN  \E k \in 1..Len(rest) :
              /\ SubSeq(rest, k, k) = "/"
              /\ AllDigits(SubSeq(rest, 1, k - 1))
              /\ AllDigits(Slice(rest, k))

----------------------------------------------------------------------------
(* The path rewrite of handler, rule by rule.                              *)

\* `/${path.join("/")}`
InitialPath(path) == "/" \o Join(path)

\* RewriteChat with the prefix added a second time
RewriteChatDoubled(p) == "/api/v1/api/v1/" \o IdOf(p, "/chat") \o "/chat"

\* transformedPath.replace(/^\/(\d+)\/chat$/, '/api/v1/$1/chat')
RewriteChat(p) == "/api/v1/" \o IdOf(p, "/chat") \o "/chat"

\* transformedPath.replace(/^\/(\d+)\/new_conversation$/, '/api/v1/$1/new_conversation')
RewriteNewConversation(p) ==
    "/api/v1/" \o IdOf(p, "/new_conversation") \o "/new_conversation"

\* `/api/v1${transformedPath}`
PrependPrefix(p) == "/api/v1" \o p

\* StripAndReAdd without the strip
StripAndReAddUnstripped(p) == "/api/v1" \o p

\* `/api/v1${transformedPath.slice(6)}`
StripAndReAdd(p) == "/api/v1" \o Slice(p, 6)

\* transformedPath.replace('/api/', '/api/v1/')
InsertVersion(p) == ReplaceFirst(p, "/api/", "/api/v1/")

\* the /me/tasks rule of an earlier revision, which dropped the /me segment
RewriteMeTasksStripped(p) == "/api/v1/tasks" \o ReplaceFirst(p, "/me/tasks", "")

\* the /me/tasks rule: `/api/v1${transformedPath}`, the /me segment kept
RewriteMeTasks(p) == PrependPrefix(p)

\* the rules as a run of separate if statements: each later rule sees what
\* the earlier ones made of the path
TransformPathCascading(p) ==
    LET s1 == IF MatchesIdThen(p, "/chat") THEN RewriteChat(p) ELSE p
        s2 == IF MatchesIdThen(s1, "/new_conversation") THEN RewriteNewConversation(s1) ELSE s1
        s3 == IF MatchesConversation(s2) THEN PrependPrefix(s2) ELSE s2
        s4 == IF s3 = "/me" THEN "/api/v1/auth/me" ELSE s3
        s5 == IF StartsWith(s4, "/me/tasks") THEN PrependPrefix(s4) ELSE s4
        s6 == IF StartsWith(s5, "/tasks") THEN PrependPrefix(s5) ELSE s5
        s7 == IF StartsWith(s6, "/api/v1/") THEN StripAndReAdd(s6) ELSE s6
        s8 == IF StartsWith(s7, "/api/") THEN InsertVersion(s7) ELSE s7
    IN  IF ~StartsWith(s8, "/api/v1/") THEN PrependPrefix(s8) ELSE s8

\* the if / else-if chain
TransformPath(p) ==
    IF MatchesIdThen(p, "/chat") THEN RewriteChat(p)
    ELSE IF MatchesIdThen(p, "/new_conversation") THEN RewriteNewConversation(p)
    ELSE IF MatchesConversation(p) THEN PrependPrefix(p)
    ELSE IF p = "/me" THEN "/api/v1/auth/me"
    ELSE IF StartsWith(p, "/me/tasks") THEN RewriteMeTasks(p)
    ELSE IF StartsWith(p, "/tasks") THEN PrependPrefix(p)
    ELSE IF StartsWith(p, "/api/v1/") THEN StripAndReAdd(p)
    ELSE IF StartsWith(p, "/api/") THEN InsertVersion(p)
    ELSE IF ~StartsWith(p, "/api/v1/") THEN PrependPrefix(p)
    ELSE p

----------------------------------------------------------------------------
(* JavaScript values: what JSON.parse yields, what process.env,            *)
(* getSessionServer() and NextResponse.json() hold.                        *)

Undefined == [type |-> "undefined"]
Null == [type |-> "null"]
Str(s) == [type |-> "string", str |-> s]
Num(n) == [type |-> "number", num |-> n]
Bool(b) == [type |-> "boolean", bool |-> b]
Arr(items) == [type |-> "array", items |-> items]
Obj(fields) == [type |-> "object", fields |-> fields]

\* ToBoolean: what `if (v)` and `v || w` test
Truthy(v) ==
    CASE v.type = "undefined" -> FALSE
      [] v.type = "null" -> FALSE
      [] v.type = "string" -> v.str # ""
      [] v.type = "number" -> v.num # 0
      [] v.type = "boolean" -> v.bool
      [] OTHER -> TRUE

\* a || b
OrElse(a, b) == IF Truthy(a) THEN a ELSE b

\* v.key on a value that is neither null nor undefined
Get(v, key) == IF v.type = "object" /\ key \in DOMAIN v.fields
               THEN v.fields[key] ELSE Undefined

\* v?.key
GetOptional(v, key) == IF v.type \in {"null", "undefined"} THEN Undefined
                       ELSE Get(v, key)

\* ToString, as applied by a template literal `${v}`, for the values that occur
RECURSIVE TemplateString(_)
TemplateString(v) ==
    CASE v.type = "string" -> v.str
      [] v.type = "null" -> "null"
      [] v.type = "undefined" -> "undefined"
      [] v.type = "boolean" -> IF v.bool THEN "true" ELSE "false"
      [] v.type = "array" ->
            IF Len(v.items) = 0 THEN ""
            ELSE IF Len(v.items) = 1
                 THEN (IF v.items[1].type \in {"null", "undefined"} THEN ""
                       ELSE TemplateString(v.items[1]))
            ELSE TemplateString(Arr(<<v.items[1]>>)) \o "," \o TemplateString(Arr(Tail(v.items)))
      [] OTHER -> "[object Object]"

\* The body texts a backend answer may carry, and what JSON.parse makes of
\* each: a value, or a SyntaxError.
ParseError == [ok |-> FALSE]
Parsed(v) == [ok |-> TRUE, value |-> v]

JSONParse(text) ==
    CASE text = "{\"detail\":\"Task not found\"}" ->
            Parsed(Obj([detail |-> Str("Task not found")]))
      [] text = "{\"message\":\"Bad request\"}" ->
            Parsed(Obj([message |-> Str("Bad request")]))
      [] text = "{\"detail\":\"\",\"message\":\"Bad request\"}" ->
            Parsed(Obj([detail |-> Str(""), message |-> Str("Bad request")]))
      [] text = "{\"detail\":\"Task not found\",\"message\":\"Bad request\"}" ->
            Parsed(Obj([detail |-> Str("Task not found"),
                        message |-> Str("Bad request")]))
      [] text = "{\"detail\":[{\"msg\":\"field required\"}]}" ->
            Parsed(Obj([detail |-> Arr(<<Obj([msg |-> Str("field required")])>>)]))
      [] text = "{\"id\":7,\"title\":\"Buy milk\"}" ->
            Parsed(Obj([id |-> Num(7), title |-> Str("Buy milk")]))
      [] text = "{\"message\":\"add a task\"}" ->
            Parsed(Obj([message |-> Str("add a task")]))
      [] text = "{}" -> Parsed(Obj(<<>>))
      [] text = "null" -> Parsed(Null)
      [] OTHER -> ParseError

----------------------------------------------------------------------------
(* The environment of one invocation.                                      *)

Methods == {"GET", "HEAD", "POST", "PUT", "PATCH", "DELETE"}

\* inbound path segment lists (ctx.params.path)
InboundPaths == {
    <<"1", "chat">>, <<"42", "new_conversation">>, <<"conversations", "1", "2">>,
    <<"me">>, <<"me", "tasks">>, <<"tasks">>, <<"tasks", "7">>,
    <<"api", "v1", "tasks">>, <<"api", "v1", "auth", "login">>,
    <<"api", "auth", "login">>, <<"auth", "login">>, <<"users">>,
    <<"chat">>, <<"tasks", "chat">>, <<"api", "v1", "1", "chat">>,
    <<"chat", "auth">>, <<"users", "tasks">> }

\* inbound body texts (req.text())
InboundBodies == {"", "{\"message\":\"add a task\"}"}

\* process.env
Envs == { [NODE_ENV |-> mode, API_BASE_URL |-> o[1], NEXT_PUBLIC_API_BASE_URL |-> o[2]] :
            mode \in {"production", "development"},
            o \in { <<Str("http://backend:8000"), Str("http://public:8000")>>,
                    <<Undefined, Str("http://public:8000")>>,
                    <<Undefined, Undefined>> } }

\* what `await getSessionServer()` may do: throw, or answer null or a session
Thrown(msg) == [type |-> "throw", message |-> msg]
SessionResults == { Thrown("session lookup failed"),
                    Null,
                    Obj([user |-> Str("u1")]),
                    Obj([user |-> Str("u1"), accessToken |-> Str("")]),
                    Obj([user |-> Str("u1"), accessToken |-> Str("tok-123")]) }

\* statuses for which the Fetch standard forbids a response body
NullBodyStatuses == {101, 103, 204, 205, 304}

\* res.headers.get("content-type")
ContentTypes == {Str("application/json"), Str("text/plain"), Null}

OkBodies == {"{\"id\":7,\"title\":\"Buy milk\"}", "<html>ok</html>"}

ErrorBodies == { "{\"detail\":\"Task not found\"}",
                 "{\"message\":\"Bad request\"}",
                 "{\"detail\":\"\",\"message\":\"Bad request\"}",
                 "{\"detail\":\"Task not found\",\"message\":\"Bad request\"}",
                 "{\"detail\":[{\"msg\":\"field required\"}]}",
                 "{}", "null", "Internal Server Error", "" }

BackendResponse(st, ct, text) ==
    [type |-> "response", status |-> st, contentType |-> ct, text |-> text]

\* what `await fetch(...)` may do: throw, or answer with a response
FetchResults ==
    {Thrown("fetch failed")}
    \cup { BackendResponse(st, ct, text) :
             st \in {200, 201}, ct \in ContentTypes, text \in OkBodies }
    \cup { BackendResponse(204, ct, "") : ct \in {Str("application/json"), Null} }
    \cup { BackendResponse(st, Str("application/json"), text) :
             st \in {404, 500}, text \in ErrorBodies }
    \cup { BackendResponse(304, Null, "") }

None == [type |-> "none"]

----------------------------------------------------------------------------
(* The pieces of handler.                                                  *)

isDevelopment(e) == e.NODE_ENV # "production"

baseUrl(e) ==
    IF Truthy(e.API_BASE_URL) THEN e.API_BASE_URL
    ELSE IF Truthy(e.NEXT_PUBLIC_API_BASE_URL) THEN e.NEXT_PUBLIC_API_BASE_URL
    ELSE Null

\* requestBody: read only when the method is neither GET nor HEAD
ReadBody(method, body) == IF method # "GET" /\ method # "HEAD" THEN body ELSE ""

BaseHeaders == ("Accept" :> "application/json") @@ ("Content-Type" :> "application/json")

\* isPublicEndpoint that takes only the login and register paths for public
isPublicEndpointLoginOnly(tp) == Includes(tp, "/auth/login") \/ Includes(tp, "/auth/register")

\* isPublicEndpoint testing the start of the path only
isPublicEndpointPrefix(tp) == StartsWith(tp, "/auth")

isPublicEndpoint(tp) == Includes(tp, "/auth")

\* TokenFor with the placeholder in every mode
TokenForAnyMode(sess, e) == OrElse(GetOptional(sess, "accessToken"), Str("mock-token"))

\* session?.accessToken || (isDevelopment() ? "mock-token" : null)
TokenFor(sess, e) ==
    OrElse(GetOptional(sess, "accessToken"),
           IF isDevelopment(e) THEN Str("mock-token") ELSE Null)

\* if (token) headers.Authorization = `Bearer ${token}`
\* WithAuthorization falling back on the Authorization header of the
\* inbound request when there is no token
WithAuthorizationOrInbound(h, token) ==
    IF Truthy(token)
    THEN ("Authorization" :> ("Bearer " \o TemplateString(token))) @@ h
    ELSE IF "headers" \in DOMAIN req /\ "Authorization" \in DOMAIN req.headers
    THEN ("Authorization" :> req.headers["Authorization"]) @@ h
    ELSE h

WithAuthorization(h, token) ==
    IF Truthy(token)
    THEN ("Authorization" :> ("Bearer " \o TemplateString(token))) @@ h
    ELSE h

\* NextResponse.json(body, { status }): the Response constructor refuses a
\* body together with a null-body status
NextResponseJson(body, status) ==
    IF status \in NullBodyStatuses
    THEN Thrown("Invalid response status code")
    ELSE [type |-> "response", status |-> status, json |-> TRUE, body |-> body]

\* new NextResponse(text, { status })
NewNextResponse(text, status) ==
    IF status \in NullBodyStatuses
    THEN Thrown("Invalid response status code")
    ELSE [type |-> "response", status |-> status, json |-> FALSE, body |-> Str(text)]

\* the outer catch
ProxyError(msg) ==
    [type |-> "response", status |-> 500, json |-> TRUE,
     body |-> Obj([message |-> Str("Proxy error occurred"), error |-> Str(msg)])]

\* a handler whose outer try has no catch: a thrown value leaves the handler
CatchNothing(result) == result

Catch(result) == IF result.type = "throw" THEN ProxyError(result.message) ELSE result

\* the sample task list; the time stamps are those of the moment of the call
MockTasks ==
    Arr(<< Obj([id |-> Num(1), title |-> Str("Sample Task"),
                description |-> Str("This is a sample task for testing"),
                completed |-> Bool(FALSE), createdAt |-> Str("<now>"),
                updatedAt |-> Str("<now>"), ownerId |-> Num(1),
                priority |-> Str("medium"), dueDate |-> Null]),
            Obj([id |-> Num(2), title |-> Str("Another Sample Task"),
                description |-> Str("This is another sample task"),
                completed |-> Bool(FALSE), createdAt |-> Str("<now>"),
                updatedAt |-> Str("<now>"), ownerId |-> Num(1),
                priority |-> Str("high"), dueDate |-> Str("<now + 1 day>")]) >>)

\* the synthetic chat response
\* ChatShape without the message_id field
ChatShapeWithoutMessageId(text) ==
    Obj([conversation_id |-> Num(1), response |-> Str(text),
         has_tools_executed |-> Bool(FALSE), tool_results |-> Arr(<<>>)])

ChatShape(text) ==
    Obj([conversation_id |-> Num(1), response |-> Str(text),
         has_tools_executed |-> Bool(FALSE), tool_results |-> Arr(<<>>),
         message_id |-> Null])

NoBackendChatText ==
    "I'm in development mode without a backend connection, but I can still help! I have limited functionality, but you can ask me about task management. What would you like to do?"

TroubleConnectingText ==
    "I'm having trouble connecting to the backend, but I'm still here to help! I can assist you with your tasks. What would you like to do?"

ChatErrorText(detail) ==
    "I encountered an issue processing your request. Error: " \o detail
    \o ". But I'm still here to help! What would you like to do?"

\* AbsentOriginResponse giving its synthetic answers in production too
AbsentOriginResponseAnyMode(e, tp) ==
    IF Includes(tp, "/tasks")
    THEN NextResponseJson(Obj([items |-> MockTasks]), 200)
    ELSE IF Includes(tp, "/chat")
    THEN NextResponseJson(ChatShape(NoBackendChatText), 200)
    ELSE NextResponseJson(Obj([error |-> Str("API backend not configured")]), 503)

\* if (!apiBaseUrl) { ... }
AbsentOriginResponse(e, tp) ==
    IF isDevelopment(e) /\ Includes(tp, "/tasks")
    THEN NextResponseJson(Obj([items |-> MockTasks]), 200)
    ELSE IF isDevelopment(e) /\ Includes(tp, "/chat")
    THEN NextResponseJson(ChatShape(NoBackendChatText), 200)
    ELSE NextResponseJson(Obj([error |-> Str("API backend not configured")]), 503)

\* OutboundRequest passing requestBody whatever the method
OutboundRequestAlwaysBody(origin, tp, method, h, body) ==
    [url |-> origin \o tp, method |-> method, headers |-> h, body |-> Str(body)]

\* the arguments of fetch
OutboundRequest(origin, tp, method, h, body) ==
    [url |-> origin \o tp, method |-> method, headers |-> h,
     body |-> IF method = "GET" \/ method = "HEAD" THEN Undefined ELSE Str(body)]

\* OnFetchError giving the sample tasks in production too
OnFetchErrorAnyMode(e, tp, err) ==
    IF Includes(tp, "/tasks")
    THEN NextResponseJson(Obj([items |-> MockTasks]), 200)
    ELSE IF Includes(tp, "/chat")
    THEN NextResponseJson(ChatShape(TroubleConnectingText), 200)
    ELSE Thrown("Failed to connect to backend: " \o err.message)

\* catch (fetchError) { ... }
OnFetchError(e, tp, err) ==
    IF isDevelopment(e) /\ Includes(tp, "/tasks")
    THEN NextResponseJson(Obj([items |-> MockTasks]), 200)
    ELSE IF Includes(tp, "/chat")
    THEN NextResponseJson(ChatShape(TroubleConnectingText), 200)
    ELSE Thrown("Failed to connect to backend: " \o err.message)

\* res.ok
IsOk(r) == r.status >= 200 /\ r.status <= 299

\* errorJson.detail || errorJson.message || errorText, errorText when
\* JSON.parse or the property read throws
ErrorDetail(errorText) ==
    LET parsed == JSONParse(errorText)
    IN  IF parsed.ok /\ parsed.value.type \notin {"null", "undefined"}
        THEN OrElse(OrElse(Get(parsed.value, "detail"), Get(parsed.value, "message")),
                    Str(errorText))
        ELSE Str(errorText)

\* ErrorResponse answering every failure off the chat path with status 500
ErrorResponseFlattened(tp, r) ==
    LET errorDetail == ErrorDetail(r.text)
    IN  IF Includes(tp, "/chat")
        THEN NextResponseJson(ChatShape(ChatErrorText(TemplateString(errorDetail))), 200)
        ELSE NextResponseJson(Obj([error |-> errorDetail]), 500)

\* ErrorResponse answering a chat path with the backend's status
ErrorResponseKeepsStatus(tp, r) ==
    LET errorDetail == ErrorDetail(r.text)
    IN  IF Includes(tp, "/chat")
        THEN NextResponseJson(ChatShape(ChatErrorText(TemplateString(errorDetail))),
                              r.status)
        ELSE NextResponseJson(Obj([error |-> errorDetail]), r.status)

\* if (!res.ok) { ... }
\* ErrorResponse handing the backend's error text on as it came
ErrorResponseRawText(tp, r) == NewNextResponse(r.text, r.status)

ErrorResponse(tp, r) ==
    LET errorDetail == ErrorDetail(r.text)
    IN  IF Includes(tp, "/chat")
        THEN NextResponseJson(ChatShape(ChatErrorText(TemplateString(errorDetail))), 200)
        ELSE NextResponseJson(Obj([error |-> errorDetail]), r.status)

\* res.json().catch(() => null)
JsonOrNull(text) == IF JSONParse(text).ok THEN JSONParse(text).value ELSE Null

\* SuccessResponse answering every success with status 200
SuccessResponseAlwaysOk(r) ==
    LET contentType == IF r.contentType.type = "null" THEN "" ELSE r.contentType.str
    IN  IF Includes(contentType, "application/json")
        THEN NextResponseJson(JsonOrNull(r.text), 200)
        ELSE NewNextResponse(r.text, 200)

\* the successful answer
SuccessResponse(r) ==
    LET contentType == IF r.contentType.type = "null" THEN "" ELSE r.contentType.str
    IN  IF Includes(contentType, "application/json")
        THEN NextResponseJson(JsonOrNull(r.text), r.status)
        ELSE NewNextResponse(r.text, r.status)

TranslateResponse(tp, r) == IF ~IsOk(r) THEN ErrorResponse(tp, r) ELSE SuccessResponse(r)

----------------------------------------------------------------------------
(* One invocation of handler, step by step.                                *)

Init ==
    /\ env \in Envs
    /\ pc = "idle"
    /\ req = None
    /\ requestBody = ""
    /\ transformedPath = ""
    /\ headers = BaseHeaders
    /\ session = None
    /\ sessionLookups = 0
    /\ outbound = <<>>
    /\ res = None
    /\ response = None
    /\ NoTasksClient
    /\ NoChatbot

\* the runtime calls handler(req, ctx); the body is read
Receive(method, path, body) ==
    /\ pc = "idle"
    /\ req' = [method |-> method, path |-> path, body |-> body]
    /\ requestBody' = ReadBody(method, body)
    /\ pc' = "rewrite"
    /\ UNCHANGED <<env, transformedPath, headers, session, sessionLookups,
                   outbound, res, response>>
    /\ UNCHANGED clientVars

\* the path rewrite
RewritePath ==
    /\ pc = "rewrite"
    /\ transformedPath' = TransformPath(InitialPath(req.path))
    /\ pc' = "authorize"
    /\ UNCHANGED <<env, req, requestBody, headers, session, sessionLookups,
                   outbound, res, response>>
    /\ UNCHANGED clientVars

\* the headers; the session lookup unless the endpoint is public
Authorize ==
    /\ pc = "authorize"
    /\ IF isPublicEndpoint(transformedPath)
       THEN /\ pc' = "origin"
            /\ UNCHANGED <<headers, session, sessionLookups, response>>
       ELSE \E s \in SessionResults :
               /\ session' = s
               /\ sessionLookups' = sessionLookups + 1
               /\ IF s.type = "throw"
                  THEN /\ response' = Catch(s)
                       /\ pc' = "done"
                       /\ UNCHANGED headers
                  ELSE /\ headers' = WithAuthorization(headers, TokenFor(s, env))
                       /\ pc' = "origin"
                       /\ UNCHANGED response
    /\ UNCHANGED <<env, req, requestBody, transformedPath, outbound, res>>
    /\ UNCHANGED clientVars

\* const apiBaseUrl = baseUrl(); the answers given without a backend
ResolveOrigin ==
    /\ pc = "origin"
    /\ IF ~Truthy(baseUrl(env))
       THEN /\ response' = Catch(AbsentOriginResponse(env, transformedPath))
            /\ pc' = "done"
       ELSE /\ pc' = "fetch"
            /\ UNCHANGED response
    /\ UNCHANGED <<env, req, requestBody, transformedPath, headers, session,
                   sessionLookups, outbound, res>>
    /\ UNCHANGED clientVars

\* Fetch that tries the network call once more after a first failure
FetchWithRetry ==
    /\ pc = "fetch"
    /\ outbound' = Append(outbound,
                          OutboundRequest(baseUrl(env).str, transformedPath,
                                          req.method, headers, requestBody))
    /\ \E r \in FetchResults :
          IF r.type = "throw"
          THEN IF Len(outbound) = 0
               THEN /\ pc' = "fetch"
                    /\ UNCHANGED <<res, response>>
               ELSE /\ response' = Catch(OnFetchError(env, transformedPath, r))
                    /\ pc' = "done"
                    /\ UNCHANGED res
          ELSE /\ res' = r
               /\ pc' = "handle"
               /\ UNCHANGED response
    /\ UNCHANGED <<env, req, requestBody, transformedPath, headers, session,
                   sessionLookups>>
    /\ UNCHANGED clientVars

\* await fetch(...), and the catch around it
Fetch ==
    /\ pc = "fetch"
    /\ outbound' = Append(outbound,
                          OutboundRequest(baseUrl(env).str, transformedPath,
                                          req.method, headers, requestBody))
    /\ \E r \in FetchResults :
          IF r.type = "throw"
          THEN /\ response' = Catch(OnFetchError(env, transformedPath, r))
               /\ pc' = "done"
               /\ UNCHANGED res
          ELSE /\ res' = r
               /\ pc' = "handle"
               /\ UNCHANGED response
    /\ UNCHANGED <<env, req, requestBody, transformedPath, headers, session,
                   sessionLookups>>
    /\ UNCHANGED clientVars

\* the translation of the backend's answer
HandleResponse ==
    /\ pc = "handle"
    /\ response' = Catch(TranslateResponse(transformedPath, res))
    /\ pc' = "done"
    /\ UNCHANGED <<env, req, requestBody, transformedPath, headers, session,
                   sessionLookups, outbound, res>>
    /\ UNCHANGED clientVars

ReceiveAny == \E m \in Methods, p \in InboundPaths, b \in InboundBodies : Receive(m, p, b)

Next ==
    \/ ReceiveAny
    \/ RewritePath
    \/ Authorize
    \/ ResolveOrigin
    \/ Fetch
    \/ HandleResponse

Spec == Init /\ [][Next]_vars

----------------------------------------------------------------------------
(* The path rewrite alone, over every path of up to MaxSegs segments.      *)

MaxSegs == 3

Segments == {"api", "v1", "tasks", "auth", "me", "chat", "conversations",
             "new_conversation", "7", "42", "7a", "users"}

RECURSIVE PathsOfLength(_)
PathsOfLength(n) ==
    IF n = 0 THEN {<<>>}
    ELSE {Append(p, s) : p \in PathsOfLength(n - 1), s \in Segments}

DeepPaths == UNION {PathsOfLength(n) : n \in 1..MaxSegs}

InitRewrite ==
    /\ Init
    /\ env.NODE_ENV = "production"
    /\ Truthy(env.API_BASE_URL)

ReceiveDeep == \E p \in DeepPaths : Receive("GET", p, "")

NextRewrite ==
    \/ ReceiveDeep
    \/ RewritePath

SpecRewrite == InitRewrite /\ [][NextRewrite]_vars

----------------------------------------------------------------------------
(* Properties of the path rewrite (checked under SpecRewrite).             *)

\* the rewrite has run
Rewritten == pc \notin {"idle", "rewrite"}

\* the normalized inbound path of the request in hand
InboundPath == InitialPath(req.path)

\* C1: the inbound path /api/v1/tasks (segments api, v1, tasks) is forwarded
\* as exactly /api/v1/tasks.
C1_PrefixedTasksUnchanged ==
    (Rewritten /\ req.path = <<"api", "v1", "tasks">>)
        => transformedPath = "/api/v1/tasks"

\* C2: every inbound path that begins with /api/v1/auth is forwarded with
\* its path unchanged.
C2_PrefixedAuthUnchanged ==
    (Rewritten /\ StartsWith(InboundPath, "/api/v1/auth"))
        => transformedPath = InboundPath

\* C3: every inbound path /{n}/chat, n a non-empty string of decimal digits,
\* is rewritten to exactly /api/v1/{n}/chat.
C3_ChatPrefixedOnce ==
    (Rewritten /\ Len(req.path) = 2 /\ AllDigits(req.path[1]) /\ req.path[2] = "chat")
        => transformedPath = "/api/v1/" \o req.path[1] \o "/chat"

C3_Witness ==
    /\ Rewritten
    /\ req.path = <<"42", "chat">>
    /\ transformedPath = "/api/v1/42/chat"

\* C4: no inbound path that begins with /api/v1/ is rewritten to a path that
\* begins with /api/v1/api/v1/.
C4_NoDoublePrefix ==
    (Rewritten /\ StartsWith(InboundPath, "/api/v1/"))
        => ~StartsWith(transformedPath, "/api/v1/api/v1/")

C4_Witness ==
    /\ Rewritten
    /\ req.path = <<"api", "v1", "api">>
    /\ StartsWith(transformedPath, "/api/v1")

----------------------------------------------------------------------------
(* Properties of the whole handler (checked under Spec).                   *)

\* the fetch calls made so far
OutboundRequests == {outbound[i] : i \in 1..Len(outbound)}

HasAuthorization(o) == "Authorization" \in DOMAIN o.headers

\* the session lookup answered a session that holds a non-empty access token
SessionHasToken ==
    /\ session.type = "object"
    /\ "accessToken" \in DOMAIN session.fields
    /\ session.fields["accessToken"].type = "string"
    /\ session.fields["accessToken"].str # ""

\* C5: an outbound GET or HEAD request carries no body, whatever the inbound
\* body was; an outbound request of any other method carries the inbound
\* body text.
C5_BodyOnlyOffGetHead ==
    \A o \in OutboundRequests :
        IF o.method \in {"GET", "HEAD"}
        THEN o.body = Undefined
        ELSE o.body = Str(req.body)

C5_Witness ==
    /\ Len(outbound) = 1
    /\ req.method = "GET"
    /\ req.body # ""
    /\ outbound[1].method = "GET"
    /\ outbound[1].body = Undefined

\* C6: when the rewritten path contains /auth, no session lookup is made and
\* the outbound request has no Authorization header; when it does not and a
\* session token T is present, the outbound request carries
\* Authorization: Bearer T.
C6_AuthorizationAttachment ==
    /\ (Rewritten /\ Includes(transformedPath, "/auth"))
          => /\ sessionLookups = 0
             /\ \A o \in OutboundRequests : ~HasAuthorization(o)
    /\ (Rewritten /\ ~Includes(transformedPath, "/auth") /\ SessionHasToken)
          => \A o \in OutboundRequests :
                /\ HasAuthorization(o)
                /\ o.headers["Authorization"]
                      = "Bearer " \o session.fields["accessToken"].str

C6_Witness ==
    /\ Len(outbound) = 1
    /\ transformedPath = "/api/v1/tasks"
    /\ SessionHasToken
    /\ outbound[1].headers["Authorization"] = "Bearer tok-123"

\* C7: in production mode a request without a session token is forwarded
\* with no Authorization header; the placeholder mock-token is attached only
\* in non-production mode and only when the session token is missing; a
\* present session token is always the one attached.
C7_PlaceholderOnlyOffProduction ==
    \A o \in OutboundRequests :
        /\ (env.NODE_ENV = "production" /\ ~SessionHasToken) => ~HasAuthorization(o)
        /\ (HasAuthorization(o) /\ o.headers["Authorization"] = "Bearer mock-token")
              => (env.NODE_ENV # "production" /\ ~SessionHasToken)
        /\ SessionHasToken
              => /\ HasAuthorization(o)
                 /\ o.headers["Authorization"]
                       = "Bearer " \o session.fields["accessToken"].str

C7_Witness ==
    /\ Len(outbound) = 1
    /\ env.NODE_ENV = "production"
    /\ sessionLookups = 1
    /\ ~SessionHasToken
    /\ ~HasAuthorization(outbound[1])

\* the backend answered the fetch with a status outside 200..299
BackendAnsweredError == pc = "done" /\ res.type = "response" /\ ~IsOk(res)

\* the field names and types of the chat response
HasChatShape(body) ==
    /\ body.type = "object"
    /\ DOMAIN body.fields = {"conversation_id", "response", "has_tools_executed",
                             "tool_results", "message_id"}
    /\ body.fields["conversation_id"].type = "number"
    /\ body.fields["response"].type = "string"
    /\ body.fields["has_tools_executed"].type = "boolean"
    /\ body.fields["tool_results"].type = "array"
    /\ body.fields["message_id"].type \in {"number", "null"}

\* the backend's body is JSON whose detail is a non-empty string
HasStringDetail(text) ==
    /\ JSONParse(text).ok
    /\ JSONParse(text).value.type = "object"
    /\ "detail" \in DOMAIN JSONParse(text).value.fields
    /\ JSONParse(text).value.fields["detail"].type = "string"
    /\ JSONParse(text).value.fields["detail"].str # ""

\* C8: on a rewritten path that contains /chat, a non-2xx backend answer whose
\* JSON body has the non-empty string detail X yields status 200, the chat
\* shape, and a response text that contains X.
C8_ChatErrorMasked ==
    (BackendAnsweredError /\ Includes(transformedPath, "/chat")
       /\ HasStringDetail(res.text))
        => /\ response.status = 200
           /\ response.json
           /\ HasChatShape(response.body)
           /\ Includes(response.body.fields["response"].str,
                       JSONParse(res.text).value.fields["detail"].str)

C8_Witness ==
    /\ BackendAnsweredError
    /\ transformedPath = "/api/v1/1/chat"
    /\ res.status = 500
    /\ res.text = "{\"detail\":\"Task not found\"}"
    /\ response.status = 200
    /\ Includes(response.body.fields["response"].str, "Task not found")

\* the detail the claims speak of: the body's detail, else its message, else
\* the raw body text ("else" as JavaScript's ||: an empty detail counts as
\* none)
ExtractedDetail(text) ==
    LET parsed == JSONParse(text)
        has(k) == /\ parsed.ok
                  /\ parsed.value.type = "object"
                  /\ k \in DOMAIN parsed.value.fields
                  /\ Truthy(parsed.value.fields[k])
    IN  IF has("detail") THEN parsed.value.fields["detail"]
        ELSE IF has("message") THEN parsed.value.fields["message"]
        ELSE Str(text)

\* the response has the backend's status and a JSON body whose error field is
\* the extracted detail
StatusAndErrorPreserved ==
    /\ response.status = res.status
    /\ response.json
    /\ response.body.type = "object"
    /\ "error" \in DOMAIN response.body.fields
    /\ response.body.fields["error"] = ExtractedDetail(res.text)

FetchThrew == pc = "done" /\ Len(outbound) = 1 /\ res.type = "none"

\* C10: with an origin configured and the fetch throwing, every request whose
\* path contains /chat gets status 200 and the chat shape with the
\* connectivity-trouble message, has_tools_executed false, tool_results empty
\* and message_id null, in both modes and for every method.
C10_ChatNetworkFailureMasked ==
    (FetchThrew /\ Includes(transformedPath, "/chat"))
        => /\ response.status = 200
           /\ response.json
           /\ response.body = ChatShape(TroubleConnectingText)

\* the handler resolved the origin, found none and answered
OriginFoundAbsent == pc = "done" /\ ~Truthy(baseUrl(env)) /\ session.type # "throw"

\* C11: with no origin configured and in non-production mode, every request
\* whose path contains /chat (and that gets as far as resolving the origin)
\* is answered with status 200, the chat shape and a non-empty response text,
\* and no outbound request is made.
C11_ChatWithoutOrigin ==
    (OriginFoundAbsent /\ env.NODE_ENV # "production"
       /\ Includes(transformedPath, "/chat"))
        => /\ response.status = 200
           /\ response.json
           /\ HasChatShape(response.body)
           /\ response.body.fields["response"].str # ""
           /\ Len(outbound) = 0

\* the 503 structured error
IsNotConfiguredError ==
    /\ response.type = "response"
    /\ response.status = 503
    /\ response.json
    /\ response.body.type = "object"
    /\ DOMAIN response.body.fields = {"error"}
    /\ response.body.fields["error"].type = "string"

\* the requests C12 promises a 503 to
AbsentOriginOrdinaryCase ==
    /\ ~Truthy(baseUrl(env))
    /\ \/ env.NODE_ENV = "production"
       \/ ~Includes(transformedPath, "/tasks") /\ ~Includes(transformedPath, "/chat")

\* C12 (as claimed): with no origin configured, every request in production
\* mode, and every request in non-production mode whose rewritten path
\* contains neither /tasks nor /chat, gets the 503 structured error.
C12_AbsentOriginIs503 ==
    (pc = "done" /\ AbsentOriginOrdinaryCase) => IsNotConfiguredError

\* C12 (amended): the same for every such request whose session lookup does
\* not fail (a public path makes none); a failed lookup ends in the 500 proxy
\* error before the origin is looked at.
C12_AbsentOriginIs503UnlessLookupFails ==
    /\ (OriginFoundAbsent /\ AbsentOriginOrdinaryCase) => IsNotConfiguredError
    /\ (pc = "done" /\ AbsentOriginOrdinaryCase /\ session.type = "throw")
          => (response.type = "response" /\ response.status = 500)

C12_Witness ==
    /\ OriginFoundAbsent
    /\ env.NODE_ENV = "production"
    /\ transformedPath = "/api/v1/tasks"
    /\ sessionLookups = 1
    /\ response.status = 503
    /\ response.body = Obj([error |-> Str("API backend not configured")])

\* the response is the sample task list with status 200
IsSampleTaskList ==
    /\ response.status = 200
    /\ response.json
    /\ response.body = Obj([items |-> MockTasks])

\* the response is a 500-class JSON payload that carries an error message
IsServerErrorPayload ==
    /\ response.status >= 500 /\ response.status <= 599
    /\ response.json
    /\ response.body.type = "object"
    /\ "error" \in DOMAIN response.body.fields
    /\ response.body.fields["error"].type = "string"
    /\ response.body.fields["error"].str # ""

\* a rewritten path that begins with /api/v1/tasks or /api/v1/me/tasks
IsTaskPrefixed(tp) == StartsWith(tp, "/api/v1/tasks") \/ StartsWith(tp, "/api/v1/me/tasks")

\* C13 (as claimed): when the fetch throws on a non-chat path the response is
\* a 500-class JSON error payload, except that in non-production mode a
\* rewritten path beginning with /api/v1/tasks or /api/v1/me/tasks gets the
\* sample task list with status 200; no other non-chat path does.
C13_NetworkFailureOffChat ==
    (FetchThrew /\ ~Includes(transformedPath, "/chat"))
        => IF env.NODE_ENV # "production" /\ IsTaskPrefixed(transformedPath)
           THEN IsSampleTaskList
           ELSE IsServerErrorPayload

\* C13 (amended): the same with the exception being, in non-production mode,
\* every rewritten path that contains /tasks anywhere.
C13_NetworkFailureOffChatContainsTasks ==
    (FetchThrew /\ ~Includes(transformedPath, "/chat"))
        => IF env.NODE_ENV # "production" /\ Includes(transformedPath, "/tasks")
           THEN IsSampleTaskList
           ELSE IsServerErrorPayload

C13_Witness ==
    /\ FetchThrew
    /\ env.NODE_ENV = "development"
    /\ transformedPath = "/api/v1/users/tasks"
    /\ IsSampleTaskList

\* the backend answered 2xx with a JSON content type and a body that is valid JSON
BackendAnsweredJson ==
    /\ pc = "done"
    /\ res.type = "response"
    /\ IsOk(res)
    /\ res.contentType.type = "string"
    /\ Includes(res.contentType.str, "application/json")
    /\ JSONParse(res.text).ok

\* C14: a 2xx backend answer with a JSON content type and valid JSON body J,
\* status S, is answered with status S and body J, on chat and non-chat
\* paths alike.
C14_JsonSuccessPassedThrough ==
    BackendAnsweredJson
        => /\ response.type = "response"
           /\ response.status = res.status
           /\ response.json
           /\ response.body = JSONParse(res.text).value

C14_Witness ==
    /\ BackendAnsweredJson
    /\ Includes(transformedPath, "/chat")
    /\ res.status = 201
    /\ response.status = 201
    /\ response.body = Obj([id |-> Num(7), title |-> Str("Buy milk")])

\* a well-formed response: a status line of HTTP and a body
IsWellFormedResponse(r) ==
    /\ r.type = "response"
    /\ r.status \in 200..599
    /\ r.status \notin NullBodyStatuses
    /\ r.json \in BOOLEAN
    /\ (~r.json) => r.body.type = "string"

\* C15: whatever the environment does (absent origin, network failure,
\* non-2xx answer, undecodable body, failing session lookup), an invocation
\* that has begun can always take its next step, and one that has ended has
\* returned a well-formed response: no thrown value leaves the handler.
C15_NoUnhandledFault ==
    /\ (pc \notin {"idle", "done"}) => ENABLED Next
    /\ (pc = "done") => IsWellFormedResponse(response)

\* absent origin and failing session lookup together
C15_Witness ==
    /\ pc = "done"
    /\ session.type = "throw"
    /\ ~Truthy(baseUrl(env))
    /\ Includes(transformedPath, "/chat")
    /\ response.status = 500
    /\ response.json
    /\ response.body.fields["message"] = Str("Proxy error occurred")

\* an answer with a JSON content type whose body does not decode
C15_WitnessUndecodable ==
    /\ ~BackendAnsweredJson
    /\ pc = "done"
    /\ res.type = "response" /\ IsOk(res)
    /\ res.contentType = Str("application/json")
    /\ res.text = "<html>ok</html>"
    /\ response.body = Null

\* C16 (as claimed): every inbound request results in exactly one outbound
\* request, never more and never none.
C16_ExactlyOneOutbound == (pc = "done") => Len(outbound) = 1

\* C16 (amended): an inbound request never results in more than one outbound
\* request, and it results in exactly one when, and only when, a backend
\* origin is configured and the session lookup did not fail.
C16_AtMostOneOutbound ==
    /\ Len(outbound) <= 1
    /\ (pc = "done")
          => (Len(outbound) = 1 <=> (Truthy(baseUrl(env)) /\ session.type # "throw"))

C16_Witness ==
    /\ pc = "done"
    /\ Len(outbound) = 1
    /\ req.method = "POST"
    /\ outbound[1].method = "POST"
    /\ res.type = "response"
    /\ res.status = 404

\* the proxy made its answer up itself: no origin, a failed network call, or
\* a non-2xx answer of the backend
AnsweredSynthetically ==
    \/ OriginFoundAbsent
    \/ FetchThrew
    \/ BackendAnsweredError

\* a synthetic chat response: a made-up success on a chat path that is not
\* the sample task list
IsSyntheticChatResponse ==
    /\ AnsweredSynthetically
    /\ Includes(transformedPath, "/chat")
    /\ response.type = "response"
    /\ response.status = 200
    /\ ~IsSampleTaskList

\* C17: every synthetic chat response (absent origin, network failure,
\* non-2xx backend answer) is a JSON object with exactly the fields
\* conversation_id (number), response (string), has_tools_executed (boolean),
\* tool_results (list) and message_id (number or null).
C17_SyntheticChatShape ==
    IsSyntheticChatResponse => (response.json /\ HasChatShape(response.body))

C17_Witness ==
    /\ IsSyntheticChatResponse
    /\ OriginFoundAbsent
    /\ transformedPath = "/api/v1/chat"
    /\ response.body = ChatShape(NoBackendChatText)

\* the other two sources of a synthetic chat response
C17_WitnessNetworkFailure ==
    /\ IsSyntheticChatResponse
    /\ FetchThrew
    /\ response.body.fields["response"] = Str(TroubleConnectingText)

C17_WitnessBackendError ==
    /\ IsSyntheticChatResponse
    /\ BackendAnsweredError
    /\ res.text = "{\"detail\":[{\"msg\":\"field required\"}]}"

\* the body the client receives can be parsed as JSON
IsParseableAsJson(r) ==
    /\ r.type = "response"
    /\ (r.json \/ JSONParse(r.body.str).ok)

\* the backend was asked on a chat path and the invocation has ended
ChatBackendOutcome ==
    /\ pc = "done"
    /\ Len(outbound) = 1
    /\ Includes(transformedPath, "/chat")

\* a 2xx answer whose content type does not name JSON
SuccessWithoutJsonType ==
    /\ res.type = "response"
    /\ IsOk(res)
    /\ (res.contentType.type = "null" \/ ~Includes(res.contentType.str, "application/json"))

C19_MeTasksKeepsMe ==
    (Rewritten /\ StartsWith(InboundPath, "/me/tasks"))
        => transformedPath = "/api/v1" \o InboundPath

C19_Witness ==
    /\ Rewritten
    /\ InboundPath = "/me/tasks/7"
    /\ transformedPath = "/api/v1/me/tasks/7"

\* ------------------------------------------------------------------------
\* Concurrent invocations. The runtime may hold several invocations of
\* handler at once and switches between them at every await. Everything the
\* handler declares (requestBody, transformedPath, headers, session, res) is a
\* local of one invocation, so under SpecConcurrent each variable holds one
\* value per invocation; only the process environment is shared.

\* the invocations in flight
Calls == {"a", "b"}

ConcurrentMethods == {"GET", "POST"}

ConcurrentPaths == { <<"1", "chat">>, <<"me", "tasks">>, <<"auth", "login">>, <<"users">> }

ConcurrentEnvs == { e \in Envs : e.API_BASE_URL.type = "string" \/ e.NEXT_PUBLIC_API_BASE_URL.type = "undefined" }

ConcurrentSessions == { Thrown("session lookup failed"),
                        Obj([user |-> Str("u1"), accessToken |-> Str("tok-123")]),
                        Obj([user |-> Str("u2"), accessToken |-> Str("tok-456")]) }

ConcurrentFetchResults ==
    { Thrown("fetch failed"),
      BackendResponse(200, Str("application/json"), "{\"id\":7,\"title\":\"Buy milk\"}"),
      BackendResponse(404, Str("application/json"), "{\"detail\":\"Task not found\"}") }

InitConcurrent ==
    /\ env \in ConcurrentEnvs
    /\ pc = [i \in Calls |-> "idle"]
    /\ req = [i \in Calls |-> None]
    /\ requestBody = [i \in Calls |-> ""]
    /\ transformedPath = [i \in Calls |-> ""]
    /\ headers = [i \in Calls |-> BaseHeaders]
    /\ session = [i \in Calls |-> None]
    /\ sessionLookups = [i \in Calls |-> 0]
    /\ outbound = [i \in Calls |-> <<>>]
    /\ res = [i \in Calls |-> None]
    /\ response = [i \in Calls |-> None]
    /\ NoTasksClient
    /\ NoChatbot

\* the runtime calls handler(req, ctx) for invocation i; the body is read
CallReceive(i, method, path, body) ==
    /\ pc[i] = "idle"
    /\ req' = [req EXCEPT ![i] = [method |-> method, path |-> path, body |-> body]]
    /\ requestBody' = [requestBody EXCEPT ![i] = ReadBody(method, body)]
    /\ pc' = [pc EXCEPT ![i] = "rewrite"]
    /\ UNCHANGED <<env, transformedPath, headers, session, sessionLookups,
                   outbound, res, response>>
    /\ UNCHANGED clientVars

\* the path rewrite with transformedPath declared at module level: one
\* variable that every invocation writes and reads
CallRewritePathShared(i) ==
    /\ pc[i] = "rewrite"
    /\ transformedPath' = [j \in Calls |-> TransformPath(InitialPath(req[i].path))]
    /\ pc' = [pc EXCEPT ![i] = "authorize"]
    /\ UNCHANGED <<env, req, requestBody, headers, session, sessionLookups,
                   outbound, res, response>>
    /\ UNCHANGED clientVars

\* the path rewrite of invocation i
CallRewritePath(i) ==
    /\ pc[i] = "rewrite"
    /\ transformedPath' = [transformedPath EXCEPT ![i] = TransformPath(InitialPath(req[i].path))]
    /\ pc' = [pc EXCEPT ![i] = "authorize"]
    /\ UNCHANGED <<env, req, requestBody, headers, session, sessionLookups,
                   outbound, res, response>>
    /\ UNCHANGED clientVars

\* the headers of invocation i; its session lookup unless the endpoint is public
CallAuthorize(i) ==
    /\ pc[i] = "authorize"
    /\ IF isPublicEndpoint(transformedPath[i])
       THEN /\ pc' = [pc EXCEPT ![i] = "origin"]
            /\ UNCHANGED <<headers, session, sessionLookups, response>>
       ELSE \E s \in ConcurrentSessions :
               /\ session' = [session EXCEPT ![i] = s]
               /\ sessionLookups' = [sessionLookups EXCEPT ![i] = @ + 1]
               /\ IF s.type = "throw"
                  THEN /\ response' = [response EXCEPT ![i] = Catch(s)]
                       /\ pc' = [pc EXCEPT ![i] = "done"]
                       /\ UNCHANGED headers
                  ELSE /\ headers' = [headers EXCEPT ![i] = WithAuthorization(@, TokenFor(s, env))]
                       /\ pc' = [pc EXCEPT ![i] = "origin"]
                       /\ UNCHANGED response
    /\ UNCHANGED <<env, req, requestBody, transformedPath, outbound, res>>
    /\ UNCHANGED clientVars

\* const apiBaseUrl = baseUrl() in invocation i
CallResolveOrigin(i) ==
    /\ pc[i] = "origin"
    /\ IF ~Truthy(baseUrl(env))
       THEN /\ response' = [response EXCEPT ![i] = Catch(AbsentOriginResponse(env, transformedPath[i]))]
            /\ pc' = [pc EXCEPT ![i] = "done"]
       ELSE /\ pc' = [pc EXCEPT ![i] = "fetch"]
            /\ UNCHANGED response
    /\ UNCHANGED <<env, req, requestBody, transformedPath, headers, session,
                   sessionLookups, outbound, res>>
    /\ UNCHANGED clientVars

\* CallFetch for a handler that hands the query string of the inbound URL on
CallFetchWithQuery(i) ==
    /\ pc[i] = "fetch"
    /\ outbound' = [outbound EXCEPT ![i] =
                       Append(@, OutboundRequest(baseUrl(env).str,
                                                 transformedPath[i] \o req[i].query,
                                                 req[i].method, headers[i], requestBody[i]))]
    /\ \E r \in ConcurrentFetchResults :
          IF r.type = "throw"
          THEN /\ response' = [response EXCEPT ![i] = Catch(OnFetchError(env, transformedPath[i], r))]
               /\ pc' = [pc EXCEPT ![i] = "done"]
               /\ UNCHANGED res
          ELSE /\ res' = [res EXCEPT ![i] = r]
               /\ pc' = [pc EXCEPT ![i] = "handle"]
               /\ UNCHANGED response
    /\ UNCHANGED <<env, req, requestBody, transformedPath, headers, session,
                   sessionLookups>>
    /\ UNCHANGED clientVars

\* await fetch(...) in invocation i, and the catch around it
CallFetch(i) ==
    /\ pc[i] = "fetch"
    /\ outbound' = [outbound EXCEPT ![i] =
                       Append(@, OutboundRequest(baseUrl(env).str, transformedPath[i],
                                                 req[i].method, headers[i], requestBody[i]))]
    /\ \E r \in ConcurrentFetchResults :
          IF r.type = "throw"
          THEN /\ response' = [response EXCEPT ![i] = Catch(OnFetchError(env, transformedPath[i], r))]
               /\ pc' = [pc EXCEPT ![i] = "done"]
               /\ UNCHANGED res
          ELSE /\ res' = [res EXCEPT ![i] = r]
               /\ pc' = [pc EXCEPT ![i] = "handle"]
               /\ UNCHANGED response
    /\ UNCHANGED <<env, req, requestBody, transformedPath, headers, session,
                   sessionLookups>>
    /\ UNCHANGED clientVars

\* the translation of the backend's answer in invocation i
CallHandleResponse(i) ==
    /\ pc[i] = "handle"
    /\ response' = [response EXCEPT ![i] = Catch(TranslateResponse(transformedPath[i], res[i]))]
    /\ pc' = [pc EXCEPT ![i] = "done"]
    /\ UNCHANGED <<env, req, requestBody, transformedPath, headers, session,
                   sessionLookups, outbound, res>>
    /\ UNCHANGED clientVars

CallReceiveAny(i) ==
    \E m \in ConcurrentMethods, p \in ConcurrentPaths, b \in InboundBodies : CallReceive(i, m, p, b)

ReceiveSome == \E i \in Calls : CallReceiveAny(i)
RewriteSome == \E i \in Calls : CallRewritePath(i)
AuthorizeSome == \E i \in Calls : CallAuthorize(i)
ResolveOriginSome == \E i \in Calls : CallResolveOrigin(i)
FetchSome == \E i \in Calls : CallFetch(i)
HandleResponseSome == \E i \in Calls : CallHandleResponse(i)

NextConcurrent ==
    \/ ReceiveSome
    \/ RewriteSome
    \/ AuthorizeSome
    \/ ResolveOriginSome
    \/ FetchSome
    \/ HandleResponseSome

SpecConcurrent == InitConcurrent /\ [][NextConcurrent]_vars

\* handler run alone, from its first line to its return: the rewritten path,
\* the headers, the outbound requests and the response of request r in
\* environment e, when the session lookup (if made) yields s and the network
\* call (if made) yields f
RunAlone(e, r, s, f) ==
    LET body == ReadBody(r.method, r.body)
        tp == TransformPath(InitialPath(r.path))
        lookedUp == ~isPublicEndpoint(tp)
        lookupFailed == lookedUp /\ s.type = "throw"
        h == IF lookedUp /\ ~lookupFailed
             THEN WithAuthorization(BaseHeaders, TokenFor(s, e))
             ELSE BaseHeaders
        fetched == ~lookupFailed /\ Truthy(baseUrl(e))
        result == IF lookupFailed THEN s
                  ELSE IF ~Truthy(baseUrl(e)) THEN AbsentOriginResponse(e, tp)
                  ELSE IF f.type = "throw" THEN OnFetchError(e, tp, f)
                  ELSE TranslateResponse(tp, f)
    IN  [transformedPath |-> tp,
         headers |-> h,
         outbound |-> IF fetched
                      THEN <<OutboundRequest(baseUrl(e).str, tp, r.method, h, body)>>
                      ELSE <<>>,
         response |-> Catch(result)]

\* what invocation i would have produced had it run alone with the same
\* request, the same session lookup result and the same network outcome
AloneLike(i) ==
    RunAlone(env, req[i], session[i],
             IF res[i].type = "none" THEN Thrown("fetch failed") ELSE res[i])

\* C20: concurrent invocations do not interfere: whatever the interleaving,
\* each request's rewritten path, token (its headers), outbound request and
\* response are the ones it would have had running alone.
C20_NoInterference ==
    \A i \in Calls :
        /\ (pc[i] \notin {"idle", "rewrite"})
              => transformedPath[i] = AloneLike(i).transformedPath
        /\ (pc[i] = "done")
              => /\ headers[i] = AloneLike(i).headers
                 /\ outbound[i] = AloneLike(i).outbound
                 /\ response[i] = AloneLike(i).response

\* one invocation has returned while the other, for another path and another
\* user, is still waiting to translate its backend answer
C20_Witness ==
    /\ pc["a"] = "done"
    /\ pc["b"] = "handle"
    /\ transformedPath["a"] = "/api/v1/1/chat"
    /\ transformedPath["b"] = "/api/v1/me/tasks"
    /\ "Authorization" \in DOMAIN headers["a"]
    /\ "Authorization" \in DOMAIN headers["b"]
    /\ headers["a"]["Authorization"] = "Bearer tok-123"
    /\ headers["b"]["Authorization"] = "Bearer tok-456"
    /\ Len(outbound["a"]) = 1
    /\ Len(outbound["b"]) = 1
    /\ response["a"].status = 200

\* ------------------------------------------------------------------------
\* The rule table, one row per branch of the chain, in the order of the code.

RuleCount == 9

\* the test of rule k
RuleMatches(k, p) ==
    CASE k = 1 -> MatchesIdThen(p, "/chat")
      [] k = 2 -> MatchesIdThen(p, "/new_conversation")
      [] k = 3 -> MatchesConversation(p)
      [] k = 4 -> p = "/me"
      [] k = 5 -> StartsWith(p, "/me/tasks")
      [] k = 6 -> StartsWith(p, "/tasks")
      [] k = 7 -> StartsWith(p, "/api/v1/")
      [] k = 8 -> StartsWith(p, "/api/")
      [] k = 9 -> ~StartsWith(p, "/api/v1/")

\* what rule k alone makes of p
RuleResult(k, p) ==
    CASE k = 1 -> RewriteChat(p)
      [] k = 2 -> RewriteNewConversation(p)
      [] k = 3 -> PrependPrefix(p)
      [] k = 4 -> "/api/v1/auth/me"
      [] k = 5 -> RewriteMeTasks(p)
      [] k = 6 -> PrependPrefix(p)
      [] k = 7 -> StripAndReAdd(p)
      [] k = 8 -> InsertVersion(p)
      [] k = 9 -> PrependPrefix(p)

\* k is the first rule in table order whose test p passes
IsFirstMatch(k, p) == RuleMatches(k, p) /\ \A j \in 1..(k - 1) : ~RuleMatches(j, p)

C21_WitnessFirstOccurrence ==
    /\ Rewritten
    /\ InboundPath = "/api/api/users"
    /\ transformedPath = "/api/v1/api/users"

\* a 2xx answer whose content type names JSON and whose body does not decode
SuccessUndecodable ==
    /\ res.type = "response"
    /\ IsOk(res)
    /\ res.contentType.type = "string"
    /\ Includes(res.contentType.str, "application/json")
    /\ ~JSONParse(res.text).ok

\* C22: for a 2xx backend answer with status S, a JSON content type with a
\* body that does not decode gives status S and a null JSON body; any other
\* content type gives status S and the backend's raw text unchanged.
C22_SuccessKeepsStatus ==
    /\ (pc = "done" /\ SuccessUndecodable)
          => /\ response.status = res.status
             /\ response.json
             /\ response.body = Null
    /\ (pc = "done" /\ SuccessWithoutJsonType)
          => /\ response.status = res.status
             /\ ~response.json
             /\ response.body = Str(res.text)

\* ------------------------------------------------------------------------
\* Inbound requests with headers of their own. The handler reads req.method
\* and req.text() and nothing else of the request.

\* req.headers of the inbound request
InboundHeaderSets ==
    { <<>>,
      ("Authorization" :> "Bearer inbound-token") @@ ("Cookie" :> "sid=1")
          @@ ("Accept" :> "text/html") @@ ("X-Forwarded-For" :> "10.0.0.1") }

InboundHeaderPaths == { <<"tasks">>, <<"me">>, <<"1", "chat">>, <<"auth", "login">> }

\* the runtime calls handler(req, ctx) with a request that carries headers
ReceiveInbound(method, path, body, inboundHeaders) ==
    /\ pc = "idle"
    /\ req' = [method |-> method, path |-> path, body |-> body,
               headers |-> inboundHeaders]
    /\ requestBody' = ReadBody(method, body)
    /\ pc' = "rewrite"
    /\ UNCHANGED <<env, transformedPath, headers, session, sessionLookups,
                   outbound, res, response>>
    /\ UNCHANGED clientVars

ReceiveInboundAny ==
    \E m \in Methods, p \in InboundHeaderPaths, b \in InboundBodies, h \in InboundHeaderSets :
        ReceiveInbound(m, p, b, h)

NextInbound ==
    \/ ReceiveInboundAny
    \/ RewritePath
    \/ Authorize
    \/ ResolveOrigin
    \/ Fetch
    \/ HandleResponse

SpecInbound == Init /\ [][NextInbound]_vars

\* the header names an outbound request may carry
OutboundHeaderNames == {"Accept", "Content-Type", "Authorization"}

\* C23: the outbound request's method is the inbound method; its headers are
\* a subset of Accept, Content-Type, Authorization, with Accept and
\* Content-Type fixed to application/json; no header of the inbound request,
\* its Authorization header in particular, is copied to the outbound request.
C23_OutboundHeadersFixed ==
    \A k \in 1..Len(outbound) :
        /\ outbound[k].method = req.method
        /\ DOMAIN outbound[k].headers \subseteq OutboundHeaderNames
        /\ outbound[k].headers["Accept"] = "application/json"
        /\ outbound[k].headers["Content-Type"] = "application/json"
        /\ ("Authorization" \in DOMAIN outbound[k].headers)
              => /\ SessionHasToken \/ env.NODE_ENV # "production"
                 /\ outbound[k].headers["Authorization"]
                        = "Bearer " \o TemplateString(TokenFor(session, env))
                 /\ ("Authorization" \in DOMAIN req.headers)
                       => outbound[k].headers["Authorization"] # req.headers["Authorization"]

\* an inbound request with an Authorization header of its own and no session
\* token, in production: the outbound request carries none
C23_Witness ==
    /\ Len(outbound) = 1
    /\ req.method = "PATCH"
    /\ outbound[1].method = "PATCH"
    /\ "Authorization" \in DOMAIN req.headers
    /\ env.NODE_ENV = "production"
    /\ session = Null
    /\ DOMAIN outbound[1].headers = {"Accept", "Content-Type"}

C23_WitnessToken ==
    /\ Len(outbound) = 1
    /\ "Authorization" \in DOMAIN req.headers
    /\ "Authorization" \in DOMAIN outbound[1].headers
    /\ outbound[1].headers["Authorization"] = "Bearer tok-123"

\* C24: every rewritten path, for any inbound segment list, begins with
\* /api/v1/.
C24_RewrittenBeginsWithPrefix ==
    Rewritten => StartsWith(transformedPath, "/api/v1/")

\* C25: a request for /me is forwarded to /api/v1/auth/me and, that path
\* containing /auth, no session lookup is made and no Authorization header
\* is attached, in either mode.
C25_MeForwardedWithoutToken ==
    (Rewritten /\ InboundPath = "/me")
        => /\ transformedPath = "/api/v1/auth/me"
           /\ sessionLookups = 0
           /\ "Authorization" \notin DOMAIN headers
           /\ \A k \in 1..Len(outbound) :
                 /\ outbound[k].url = baseUrl(env).str \o "/api/v1/auth/me"
                 /\ "Authorization" \notin DOMAIN outbound[k].headers

C25_Witness ==
    /\ pc = "done"
    /\ InboundPath = "/me"
    /\ env.NODE_ENV = "development"
    /\ Len(outbound) = 1
    /\ outbound[1].url = "http://backend:8000/api/v1/auth/me"
    /\ DOMAIN outbound[1].headers = {"Accept", "Content-Type"}
    /\ res.type = "response"
    /\ res.status = 200

\* ------------------------------------------------------------------------
\* Inbound requests with a query string. The handler takes the path from
\* ctx.params and never reads req.url, so the query string of the inbound
\* URL takes no part in the outbound request.

\* the query strings the task list sends: its status and q filters
InboundQueries == {"", "?status=completed", "?status=pending&q=milk"}

QueryMethods == {"GET", "POST"}

QueryPaths == { <<"me", "tasks">>, <<"tasks">> }

\* the runtime calls handler(req, ctx) for invocation i with a URL that has a
\* query string
CallReceiveUrl(i, method, path, query, body) ==
    /\ pc[i] = "idle"
    /\ req' = [req EXCEPT ![i] = [method |-> method, path |-> path,
                                  query |-> query, body |-> body]]
    /\ requestBody' = [requestBody EXCEPT ![i] = ReadBody(method, body)]
    /\ pc' = [pc EXCEPT ![i] = "rewrite"]
    /\ UNCHANGED <<env, transformedPath, headers, session, sessionLookups,
                   outbound, res, response>>
    /\ UNCHANGED clientVars

ReceiveUrlSome ==
    \E i \in Calls, m \in QueryMethods, p \in QueryPaths, q \in InboundQueries :
        CallReceiveUrl(i, m, p, q, "{\"message\":\"add a task\"}")

NextQuery ==
    \/ ReceiveUrlSome
    \/ RewriteSome
    \/ AuthorizeSome
    \/ ResolveOriginSome
    \/ FetchSome
    \/ HandleResponseSome

SpecQuery == InitConcurrent /\ [][NextQuery]_vars

\* invocations i and j got requests that differ in their query string at most,
\* and the same session
DifferInQueryOnly(i, j) ==
    /\ req[i] # None /\ req[j] # None
    /\ req[i].method = req[j].method
    /\ req[i].path = req[j].path
    /\ req[i].body = req[j].body
    /\ session[i] = session[j]

\* C26: the outbound URL is exactly the configured origin followed by the
\* rewritten path, and two inbound requests that differ only in their query
\* string produce identical outbound requests.
C26_QueryStringDropped ==
    /\ \A i \in Calls : \A k \in 1..Len(outbound[i]) :
          outbound[i][k].url = baseUrl(env).str \o transformedPath[i]
    /\ \A i, j \in Calls :
          (DifferInQueryOnly(i, j) /\ Len(outbound[i]) = 1 /\ Len(outbound[j]) = 1)
              => outbound[i] = outbound[j]

C26_Witness ==
    /\ DifferInQueryOnly("a", "b")
    /\ req["a"].query = "?status=completed"
    /\ req["b"].query = "?status=pending&q=milk"
    /\ req["a"].path = <<"me", "tasks">>
    /\ Len(outbound["a"]) = 1
    /\ Len(outbound["b"]) = 1
    /\ outbound["a"][1].url = "http://backend:8000/api/v1/me/tasks"
    /\ outbound["b"][1].url = "http://backend:8000/api/v1/me/tasks"

\* ------------------------------------------------------------------------
\* The task list client:
\*   src/frontend/app/(protected)/tasks/tasksClient.tsx
\* A task is a record of its id, title and completed flag; ids are strings.
\* Every call of an async function of the component is an entry of ops: it is
\* sent, the backend answers it, and the continuation after the await settles
\* it. The backend is the environment: it keeps a task list and may fail any
\* request.

Task(id, title, completed) == [id |-> id, title |-> title, completed |-> completed]

\* the initialTasks prop, which is also what the backend holds at first
InitialTasks == <<Task("1", "Buy milk", FALSE), Task("2", "Walk dog", TRUE)>>

\* MOCK_TASKS
MOCK_TASKS == <<Task("m1", "Play a video game", TRUE),
                Task("m2", "Game development", FALSE),
                Task("m3", "Review game mechanics", FALSE)>>

\* Array.prototype.filter is SelectSeq; list.map(F) is written
\* [i \in 1..Len(list) |-> F(list[i])]

\* the status filter shared by visibleTasks, getMockTasks and the backend
MatchesStatus(t, status) ==
    /\ (status = "completed") => t.completed
    /\ (status = "pending") => ~t.completed

FilterByStatus(list, status) ==
    LET Keep(t) == MatchesStatus(t, status) IN SelectSeq(list, Keep)

\* getMockTasks(status, query) with an empty query
getMockTasks(status) == FilterByStatus(MOCK_TASKS, status)

\* visibleTasks with an empty initialQuery
visibleTasks(list, status) == FilterByStatus(list, IF status = "all" THEN "" ELSE status)

Ids(list) == {list[k].id : k \in 1..Len(list)}

\* the effect on [editing, visibleTasks]: editing a task that is no longer
\* visible ends the edit
EditingEffect(e, list, status) ==
    IF e.type # "null" /\ e.task.id \notin Ids(visibleTasks(list, status))
    THEN [type |-> "null"]
    ELSE e

NotEditing == [type |-> "null"]
Editing(t) == [type |-> "task", task |-> t]

\* the calls that can be in flight: the refetch of the mount effect and two more
OpIds == {"mount", "o1", "o2"}

Free == [phase |-> "free"]

TaskStatuses == {"all", "pending", "completed"}

DraftTitles == {"Call mum"}

\* the backend's answers
Ok(value) == [ok |-> TRUE, value |-> value]
Failed(status, message) == [ok |-> FALSE, status |-> status, message |-> message]

\* the proxy at rest
NoProxy ==
    /\ env = [NODE_ENV |-> "production",
              API_BASE_URL |-> Str("http://backend:8000"),
              NEXT_PUBLIC_API_BASE_URL |-> Str("http://public:8000")]
    /\ pc = "idle"
    /\ req = None
    /\ requestBody = ""
    /\ transformedPath = ""
    /\ headers = BaseHeaders
    /\ session = None
    /\ sessionLookups = 0
    /\ outbound = <<>>
    /\ res = None
    /\ response = None

\* a refetchFromServer call as it is sent
RefetchOp(status) ==
    [phase |-> "sent", kind |-> "refetch", status |-> status]

\* the component after its first render and its mount effects: the state is
\* the initialTasks prop and the refetch of the effect on
\* [initialStatus, initialQuery] is in flight
InitTasks ==
    /\ NoProxy
    /\ NoChatbot
    /\ initialStatus \in TaskStatuses
    /\ tasks = InitialTasks
    /\ editing = NotEditing
    /\ toasts = {}
    /\ serverTasks = InitialTasks
    /\ ops = [o \in OpIds |-> IF o = "mount" THEN RefetchOp(initialStatus) ELSE Free]

\* updateUrl: the URL filter changes, the component is rendered with the new
\* initialStatus and the effect on [initialStatus, initialQuery] refetches
ChangeFilter(o, status) ==
    /\ ops[o] = Free
    /\ status # initialStatus
    /\ initialStatus' = status
    /\ ops' = [ops EXCEPT ![o] = RefetchOp(status)]
    /\ editing' = EditingEffect(editing, tasks, status)
    /\ UNCHANGED <<tasks, toasts, serverTasks, proxyVars, chatVars>>

\* onEdit: setEditing(t) for a task of the list shown
StartEdit(t) ==
    /\ t \in {visibleTasks(tasks, initialStatus)[k] :
                 k \in 1..Len(visibleTasks(tasks, initialStatus))}
    /\ editing # Editing(t)
    /\ editing' = Editing(t)
    /\ UNCHANGED <<initialStatus, tasks, toasts, ops, serverTasks, proxyVars, chatVars>>

\* onCancel: setEditing(null)
CancelEdit ==
    /\ editing # NotEditing
    /\ editing' = NotEditing
    /\ UNCHANGED <<initialStatus, tasks, toasts, ops, serverTasks, proxyVars, chatVars>>

\* createTask up to its await: the optimistic task is put first
StartCreate(o, title) ==
    /\ ops[o] = Free
    /\ editing = NotEditing
    /\ LET optimistic == Task("tmp-" \o o, title, FALSE)
       IN  /\ tasks' = <<optimistic>> \o tasks
           /\ ops' = [ops EXCEPT ![o] = [phase |-> "sent", kind |-> "create",
                                         optimisticId |-> optimistic.id,
                                         title |-> title]]
    /\ editing' = EditingEffect(editing, tasks', initialStatus)
    /\ UNCHANGED <<initialStatus, toasts, serverTasks, proxyVars, chatVars>>

\* toggleComplete up to its await
StartToggle(o, taskId, nextCompleted) ==
    /\ ops[o] = Free
    /\ LET Toggle(t) == IF t.id = taskId THEN [t EXCEPT !.completed = nextCompleted] ELSE t
       IN  tasks' = [i \in 1..Len(tasks) |-> Toggle(tasks[i])]
    /\ ops' = [ops EXCEPT ![o] = [phase |-> "sent", kind |-> "toggle",
                                  taskId |-> taskId, completed |-> nextCompleted,
                                  prev |-> tasks]]
    /\ editing' = EditingEffect(editing, tasks', initialStatus)
    /\ UNCHANGED <<initialStatus, toasts, serverTasks, proxyVars, chatVars>>

\* deleteTask up to its await
StartDelete(o, taskId) ==
    /\ ops[o] = Free
    /\ LET Keep(t) == t.id # taskId IN tasks' = SelectSeq(tasks, Keep)
    /\ ops' = [ops EXCEPT ![o] = [phase |-> "sent", kind |-> "delete",
                                  taskId |-> taskId, prev |-> tasks]]
    /\ editing' = EditingEffect(editing, tasks', initialStatus)
    /\ UNCHANGED <<initialStatus, toasts, serverTasks, proxyVars, chatVars>>

\* saveEdit up to its await; it returns at once when nothing is being edited
StartSaveEdit(o, title) ==
    /\ ops[o] = Free
    /\ editing # NotEditing
    /\ LET taskId == editing.task.id
           Merge(t) == IF t.id = taskId THEN [t EXCEPT !.title = title] ELSE t
       IN  /\ tasks' = [i \in 1..Len(tasks) |-> Merge(tasks[i])]
           /\ ops' = [ops EXCEPT ![o] = [phase |-> "sent", kind |-> "saveEdit",
                                         taskId |-> taskId, title |-> title,
                                         prev |-> tasks]]
    /\ editing' = EditingEffect(editing, tasks', initialStatus)
    /\ UNCHANGED <<initialStatus, toasts, serverTasks, proxyVars, chatVars>>

\* the request of call o reaches the backend, which carries it out and answers
BackendCarriesOut(o) ==
    /\ ops[o].phase = "sent"
    /\ LET op == ops[o]
           known == op.kind \in {"toggle", "delete", "saveEdit"} /\ op.taskId \in Ids(serverTasks)
           created == Task("srv-" \o o, op.title, FALSE)
           Change(t) == IF t.id # op.taskId THEN t
                        ELSE IF op.kind = "toggle" THEN [t EXCEPT !.completed = op.completed]
                        ELSE [t EXCEPT !.title = op.title]
           Keep(t) == t.id # op.taskId
           Is(t) == t.id = op.taskId
           answer == CASE op.kind = "refetch" ->
                              Ok([items |-> FilterByStatus(serverTasks,
                                              IF op.status = "all" THEN "" ELSE op.status)])
                       [] op.kind = "create" -> Ok(created)
                       [] op.kind \in {"toggle", "saveEdit"} /\ known ->
                              Ok(Head(SelectSeq([i \in 1..Len(serverTasks) |-> Change(serverTasks[i])], Is)))
                       [] op.kind = "delete" /\ known -> Ok([type |-> "undefined"])
                       [] OTHER -> Failed(404, "Task not found")
       IN  /\ serverTasks' = CASE op.kind = "create" -> Append(serverTasks, created)
                               [] op.kind \in {"toggle", "saveEdit"} /\ known ->
                                      [i \in 1..Len(serverTasks) |-> Change(serverTasks[i])]
                               [] op.kind = "delete" /\ known -> SelectSeq(serverTasks, Keep)
                               [] OTHER -> serverTasks
           /\ ops' = [ops EXCEPT ![o] = [op EXCEPT !.phase = "answered"] @@ [answer |-> answer]]
    /\ UNCHANGED <<initialStatus, tasks, editing, toasts, proxyVars, chatVars>>

\* the request of call o fails: the backend answers 500, or the network fails
BackendFails(o, failure) ==
    /\ ops[o].phase = "sent"
    /\ ops' = [ops EXCEPT ![o] = [ops[o] EXCEPT !.phase = "answered"] @@ [answer |-> failure]]
    /\ UNCHANGED <<initialStatus, tasks, editing, toasts, serverTasks, proxyVars, chatVars>>

Failures == {Failed(500, "Internal Server Error"), Failed(0, "Failed to fetch")}

\* the continuation of call o after its await, as the function of its kind
\* writes it: what it makes of the task list
TasksAfterSettle(op, list) ==
    LET Put(t) == IF t.id = (IF op.kind = "create" THEN op.optimisticId ELSE op.taskId)
                  THEN op.answer.value ELSE t
        DropOptimistic(t) == t.id # op.optimisticId
    IN  CASE op.kind = "refetch" /\ op.answer.ok -> op.answer.value.items
          [] op.kind = "refetch" /\ ~op.answer.ok ->
                 IF op.answer.status = 500 THEN getMockTasks(op.status) ELSE list
          [] op.kind = "create" /\ op.answer.ok -> [i \in 1..Len(list) |-> Put(list[i])]
          [] op.kind = "create" /\ ~op.answer.ok -> SelectSeq(list, DropOptimistic)
          [] op.kind \in {"toggle", "saveEdit"} /\ op.answer.ok -> [i \in 1..Len(list) |-> Put(list[i])]
          [] op.kind = "delete" /\ op.answer.ok -> list
          [] OTHER -> op.prev

\* the toast of the continuation, if it shows one
ToastsAfterSettle(op, shown) ==
    CASE op.kind = "refetch" -> shown
      [] ~op.answer.ok -> shown \cup {op.answer.message}
      [] op.kind = "create" -> shown \cup {"Task created."}
      [] op.kind = "delete" -> shown \cup {"Task deleted."}
      [] op.kind = "saveEdit" -> shown \cup {"Task updated."}
      [] OTHER -> shown

\* the continuation of call o runs
Settle(o) ==
    /\ ops[o].phase = "answered"
    /\ tasks' = TasksAfterSettle(ops[o], tasks)
    /\ toasts' = ToastsAfterSettle(ops[o], toasts)
    /\ editing' = EditingEffect(IF ops[o].kind = "saveEdit" /\ ops[o].answer.ok
                                THEN NotEditing ELSE editing,
                                tasks', initialStatus)
    /\ ops' = [ops EXCEPT ![o] = [ops[o] EXCEPT !.phase = "settled"]]
    /\ UNCHANGED <<initialStatus, serverTasks, proxyVars, chatVars>>

ChangeFilterAny == \E o \in OpIds, s \in TaskStatuses : ChangeFilter(o, s)
StartEditAny == \E k \in 1..Len(tasks) : StartEdit(tasks[k])
StartCreateAny == \E o \in OpIds, title \in DraftTitles : StartCreate(o, title)
StartToggleAny ==
    \E o \in OpIds, k \in 1..Len(visibleTasks(tasks, initialStatus)) :
        StartToggle(o, visibleTasks(tasks, initialStatus)[k].id,
                    ~visibleTasks(tasks, initialStatus)[k].completed)
StartDeleteAny ==
    \E o \in OpIds, k \in 1..Len(visibleTasks(tasks, initialStatus)) :
        StartDelete(o, visibleTasks(tasks, initialStatus)[k].id)
StartSaveEditAny == \E o \in OpIds, title \in DraftTitles : StartSaveEdit(o, title)
BackendCarriesOutAny == \E o \in OpIds : BackendCarriesOut(o)
BackendFailsAny == \E o \in OpIds, f \in Failures : BackendFails(o, f)
SettleAny == \E o \in OpIds : Settle(o)

NextTasks ==
    \/ ChangeFilterAny
    \/ StartEditAny
    \/ CancelEdit
    \/ StartCreateAny
    \/ StartToggleAny
    \/ StartDeleteAny
    \/ StartSaveEditAny
    \/ BackendCarriesOutAny
    \/ BackendFailsAny
    \/ SettleAny

SpecTasks == InitTasks /\ [][NextTasks]_vars

\* the tasks of a list other than the one with this id
OtherTasks(list, taskId) == LET Other(t) == t.id # taskId IN SelectSeq(list, Other)

\* call o settles in this step
Settles(o) == ops[o].phase = "answered" /\ ops'[o].phase = "settled"

\* call o is a toggleComplete, deleteTask or saveEdit whose request failed,
\* and its catch block runs in this step
RollsBack(o) ==
    /\ Settles(o)
    /\ ops[o].kind \in {"toggle", "delete", "saveEdit"}
    /\ ~ops[o].answer.ok

\* C27: when a toggleComplete, deleteTask or saveEdit request fails, its
\* rollback undoes only its own optimistic change: every other task of the
\* list, as the operations that completed meanwhile left it, is the same
\* before and after the rollback.
C27_RollbackUndoesOwnChangeOnly ==
    [][\A o \in OpIds :
          RollsBack(o) => OtherTasks(tasks', ops[o].taskId) = OtherTasks(tasks, ops[o].taskId)]_vars

\* C28: whenever the POST of createTask has succeeded, the task the backend
\* returned is in the task list when createTask settles.
C28_CreatedTaskInList ==
    [][\A o \in OpIds :
          (Settles(o) /\ ops[o].kind = "create" /\ ops[o].answer.ok)
              => ops[o].answer.value.id \in Ids(tasks')]_vars

\* ------------------------------------------------------------------------
\* The chat widget:
\*   src/frontend/components/Chatbot.tsx
\* A message is a record of its role and content; the field sentAs records
\* the userId prop the component had when the message was made (it is not a
\* field of the code's Message, and nothing of the model reads it but the
\* properties). React renders after every event and every continuation, so a
\* handler reads the state the last one left.

MaxMessages == 3

UserIds == {1, 2}

Message(role, content, u) == [role |-> role, content |-> content, sentAs |-> u]

\* `chat_history_${userId}`
HistoryKey(u) == "chat_history_" \o ToString(u)

HistoryKeys == {HistoryKey(u) : u \in UserIds}

\* localStorage.getItem of a key never set
NoItem == [type |-> "null"]

\* JSON.stringify(messages), and JSON.parse of what it made
Stringify(list) == [type |-> "json", of |-> list]
ParseStored(item) == item.of

\* String.prototype.trim, for the white space the inputs hold
RECURSIVE trim(_)
trim(s) ==
    IF s = "" THEN ""
    ELSE IF SubSeq(s, 1, 1) = " " THEN trim(SubSeq(s, 2, Len(s)))
    ELSE IF SubSeq(s, Len(s), Len(s)) = " " THEN trim(SubSeq(s, 1, Len(s) - 1))
    ELSE s

\* what the user types or picks as a quick reply
InputTexts == {"   ", "Add a new task for me"}

\* what sendChatMessage resolves to, or that it rejects
ChatAnswers ==
    { [ok |-> TRUE, response |-> "Sure.", tool_results |-> <<>>],
      [ok |-> TRUE, response |-> "Added.",
       tool_results |-> <<[result |-> [message |-> "Task added"]]>>],
      [ok |-> FALSE] }

\* the effect on [messages, userId]: a non-empty list is stored under the key
\* of the present userId
SaveEffect(store, list, u) ==
    IF Len(list) > 0 THEN [store EXCEPT ![HistoryKey(u)] = Stringify(list)] ELSE store

\* the component after its first render and its mount effects, in a browser
\* that holds no history
InitChat ==
    /\ NoProxy
    /\ NoTasksClient
    /\ userId \in UserIds
    /\ messages = <<>>
    /\ inputValue = ""
    /\ isLoading = FALSE
    /\ localStorage = [k \in HistoryKeys |-> NoItem]
    /\ pending = <<>>

\* onChange of the input, handleQuickReply, the speech result: setInputValue
SetInput(text) ==
    /\ inputValue # text
    /\ inputValue' = text
    /\ UNCHANGED <<userId, messages, isLoading, localStorage, pending, proxyVars, tasksVars>>

\* the messages the continuation of handleSubmit appends for an answer
NewMessages(answer, u) ==
    IF ~answer.ok
    THEN <<Message("assistant", "Sorry, I encountered an error. Please try again.", u)>>
    ELSE <<Message("assistant", answer.response, u)>>
         \o [k \in 1..Len(answer.tool_results) |->
                Message("assistant",
                        "Tool Result: " \o answer.tool_results[k].result.message, u)]

\* handleSubmit that sends whether or not a request is being waited for
handleSubmitIgnoringLoading ==
    /\ Len(messages) < MaxMessages
    /\ IF trim(inputValue) = ""
       THEN UNCHANGED <<messages, inputValue, isLoading, localStorage, pending>>
       ELSE /\ messages' = Append(messages, Message("user", inputValue, userId))
            /\ inputValue' = ""
            /\ isLoading' = TRUE
            /\ pending' = Append(pending, [userId |-> userId, message |-> inputValue])
            /\ localStorage' = SaveEffect(localStorage, messages', userId)
    /\ UNCHANGED <<userId, proxyVars, tasksVars>>

\* handleSubmit up to its await: nothing when the input is blank or a request
\* is being waited for; else the user's message is appended, the input is
\* cleared, isLoading is set and sendChatMessage is called
handleSubmit ==
    /\ Len(messages) < MaxMessages
    /\ IF trim(inputValue) = "" \/ isLoading
       THEN UNCHANGED <<messages, inputValue, isLoading, localStorage, pending>>
       ELSE /\ messages' = Append(messages, Message("user", inputValue, userId))
            /\ inputValue' = ""
            /\ isLoading' = TRUE
            /\ pending' = Append(pending, [userId |-> userId, message |-> inputValue])
            /\ localStorage' = SaveEffect(localStorage, messages', userId)
    /\ UNCHANGED <<userId, proxyVars, tasksVars>>

\* the continuation of handleSubmit after the await of the k-th call waited
\* for: the answer's messages are appended, and finally isLoading is cleared
Answered(k, answer) ==
    /\ k \in 1..Len(pending)
    /\ Len(messages) + Len(NewMessages(answer, userId)) <= MaxMessages
    /\ messages' = messages \o NewMessages(answer, userId)
    /\ isLoading' = FALSE
    /\ pending' = [j \in 1..(Len(pending) - 1) |-> IF j < k THEN pending[j] ELSE pending[j + 1]]
    /\ localStorage' = SaveEffect(localStorage, messages', userId)
    /\ UNCHANGED <<userId, inputValue, proxyVars, tasksVars>>

\* clearHistory, when the user confirms or declines
clearHistory(confirmed) ==
    /\ Len(messages) > 0
    /\ IF confirmed
       THEN /\ messages' = <<>>
            /\ localStorage' = [localStorage EXCEPT ![HistoryKey(userId)] = NoItem]
       ELSE UNCHANGED <<messages, localStorage>>
    /\ UNCHANGED <<userId, inputValue, isLoading, pending, proxyVars, tasksVars>>

\* the parent renders the component with another userId. The effects of the
\* commit run in the order of the code: the load effect reads the history of
\* the new user and, if there is one, sets it; the save effect stores the
\* messages of this render, still those shown for the old user, under the new
\* key. If the load effect set the messages, the next render's save effect
\* stores them.
ChangeUserId(u) ==
    /\ u # userId
    /\ userId' = u
    /\ LET savedMessages == localStorage[HistoryKey(u)]
           stored == SaveEffect(localStorage, messages, u)
       IN  IF savedMessages # NoItem
           THEN /\ messages' = ParseStored(savedMessages)
                /\ localStorage' = SaveEffect(stored, messages', u)
           ELSE /\ messages' = messages
                /\ localStorage' = stored
    /\ UNCHANGED <<inputValue, isLoading, pending, proxyVars, tasksVars>>

SetInputAny == \E text \in InputTexts : SetInput(text)
AnsweredAny == \E k \in 1..Len(pending), answer \in ChatAnswers : Answered(k, answer)
clearHistoryAny == \E confirmed \in BOOLEAN : clearHistory(confirmed)
ChangeUserIdAny == \E u \in UserIds : ChangeUserId(u)

NextChat ==
    \/ SetInputAny
    \/ handleSubmit
    \/ AnsweredAny
    \/ clearHistoryAny
    \/ ChangeUserIdAny

SpecChat == InitChat /\ [][NextChat]_vars

\* the messages stored under the key of user u
StoredHistory(u) ==
    IF localStorage[HistoryKey(u)] = NoItem THEN <<>>
    ELSE ParseStored(localStorage[HistoryKey(u)])

\* C29: the history stored under chat_history_<U> holds only messages that
\* were sent or received while the component's userId was U.
C29_HistoryPerUser ==
    \A u \in UserIds :
        \A k \in 1..Len(StoredHistory(u)) : StoredHistory(u)[k].sentAs = u

\* C30: at most one chat request is in flight: handleSubmit calls
\* sendChatMessage only when none is being waited for, and a request is being
\* waited for exactly while isLoading is set.
C30_OneRequestInFlight ==
    /\ Len(pending) <= 1
    /\ isLoading <=> (Len(pending) = 1)

\* a request is being waited for and the input holds a new message: a submit
\* made now sends nothing
C30_Witness ==
    /\ Len(pending) = 1
    /\ isLoading
    /\ trim(inputValue) # ""
    /\ Len(messages) < MaxMessages
    /\ pending[1].message = "Add a new task for me"

====
